---- MODULE Spec2Model ----
(***************************************************************************)
(* Model of src/ga_api.py: class GoogleAnalytics.  One batch_get run on a  *)
(* freshly constructed object: the date range is expanded into days, each  *)
(* day is fetched page by page through get_max_results, the days' rows are *)
(* appended to one DataFrame, which is coerced once and optionally saved.  *)
(***************************************************************************)
EXTENDS Integers, Sequences, FiniteSets, TLC

\* ------------------------------------------------------------------ bounds
MaxIpp == 3       \* largest itemsPerPage the service reports
MaxTotal == 5     \* largest totalResults the service reports
MaxSpan == 1      \* largest (last_date - first_date) in days of a generated range

\* ------------------------------------------------------- optional values
\* Python None / absent value is the empty sequence, a present value v is <<v>>.
None == <<>>
Some(v) == <<v>>

Min(a, b) == IF a < b THEN a ELSE b
Max(a, b) == IF a > b THEN a ELSE b

\* ------------------------------------------------------ calendar (datetime)
\* A date string 'Y-M-D' is the triple <<Y, M, D>> of its three numbers.
IsLeap(y) == (y % 4 = 0) /\ ((y % 100 # 0) \/ (y % 400 = 0))

DaysInMonth(y, m) ==
  IF m = 2 THEN (IF IsLeap(y) THEN 29 ELSE 28)
  ELSE IF m \in {4, 6, 9, 11} THEN 30 ELSE 31

\* Days before the first day of month m in a non-leap year.
DaysBeforeMonthTable == <<0, 31, 59, 90, 120, 151, 181, 212, 243, 273, 304, 334>>

DaysBeforeMonth(y, m) ==
  DaysBeforeMonthTable[m] + (IF m > 2 /\ IsLeap(y) THEN 1 ELSE 0)

DaysBeforeYear(y) ==
  (y - 1) * 365 + ((y - 1) \div 4) - ((y - 1) \div 100) + ((y - 1) \div 400)

\* datetime.strptime(s, '%Y-%m-%d') succeeds exactly on real calendar dates.
StrptimeOk(s) ==
  /\ s[1] >= 1 /\ s[1] <= 9999
  /\ s[2] >= 1 /\ s[2] <= 12
  /\ s[3] >= 1 /\ s[3] <= DaysInMonth(s[1], s[2])

\* The proleptic Gregorian ordinal of a parsed date (0001-01-01 is day 1).
ToOrdinal(s) == DaysBeforeYear(s[1]) + DaysBeforeMonth(s[1], s[2]) + s[3]

\* The date of an ordinal, by the 400/100/4/1-year cycle decomposition.
FromOrdinal(ord) ==
  LET n0 == ord - 1
      n400 == n0 \div 146097
      r400 == n0 % 146097
      n100 == r400 \div 36524
      r100 == r400 % 36524
      n4 == r100 \div 1461
      r4 == r100 % 1461
      n1 == r4 \div 365
      n == r4 % 365
      year == n400 * 400 + 1 + n100 * 100 + n4 * 4 + n1
      leapyear == (n1 = 3) /\ ((n4 # 24) \/ (n100 = 3))
      leapAdj(m) == IF m > 2 /\ leapyear THEN 1 ELSE 0
      month0 == (n + 50) \div 32
      preceding0 == DaysBeforeMonthTable[month0] + leapAdj(month0)
      month == IF preceding0 > n THEN month0 - 1 ELSE month0
      preceding == DaysBeforeMonthTable[month] + leapAdj(month)
  IN  IF n1 = 4 \/ n100 = 4
      THEN <<year - 1, 12, 31>>
      ELSE <<year, month, n - preceding + 1>>

\* (start_datetime + timedelta(i)).strftime('%Y-%m-%d')
AddDays(s, i) == FromOrdinal(ToOrdinal(s) + i)

\* range(k): the sequence 0, 1, ..., k-1 (empty when k <= 0).
RangeLen(k) == IF k > 0 THEN k ELSE 0

\* Variant: the range stops one day early (range(delta.days)).
Dates_Exclusive(first, last) ==
  LET delta == ToOrdinal(last) - ToOrdinal(first)
  IN  [k \in 1..RangeLen(delta) |-> AddDays(first, k - 1)]

\* dates = [start + timedelta(i) for i in range(delta.days + 1)]
Dates(first, last) ==
  LET delta == ToOrdinal(last) - ToOrdinal(first)
  IN  [k \in 1..RangeLen(delta + 1) |-> AddDays(first, k - 1)]

\* ----------------------------------------------------------- pagination
\* Variant: the stop value itself belongs to the range.
Range_Inclusive(start, stop, step) ==
  LET len == IF stop >= start THEN ((stop - start) \div step) + 1 ELSE 0
  IN  [k \in 1..len |-> start + (k - 1) * step]

\* range(start, stop, step) for step >= 1, as a sequence.
Range(start, stop, step) ==
  LET len == IF stop > start THEN ((stop - start - 1) \div step) + 1 ELSE 0
  IN  [k \in 1..len |-> start + (k - 1) * step]

\* self.pages after the first page of a day reported (ipp, total).
PlanPages(old, ipp, total) ==
  IF ipp # total THEN Range(1, total, ipp) ELSE old

\* Variant: the continuation loop runs over self.pages, first index included.
Rest_All(s) == s

\* self.pages[1:]
Rest(s) == IF Len(s) = 0 THEN <<>> ELSE Tail(s)

\* -------------------------------------------------------------- PageFetcher
\* The page size checked at the head of get_max_results.
DefaultedMaxResults(mr) == IF mr = None THEN 1000 ELSE mr[1]

RejectsMaxResults(mr) == DefaultedMaxResults(mr) < 0

ClampedMaxResults(mr) ==
  IF DefaultedMaxResults(mr) > 10000 THEN 10000 ELSE DefaultedMaxResults(mr)

\* The max_results field of the query that is sent.
SentMaxResults(req, mr) == req.max_results

\* ------------------------------------------------------- ReportingService
\* First-page metadata the service can report for a day.
Metas == {[ipp |-> i, total |-> t] : i \in 1..MaxIpp, t \in 0..MaxTotal}

\* Rows the service returns for start index s: rows s..min(s+ipp-1, total)
\* of the day, each row named by its day and its 1-based index.
ServiceRows(day, s, meta) ==
  LET last == Min(s + meta.ipp - 1, meta.total)
      n == IF last >= s THEN last - s + 1 ELSE 0
  IN  [k \in 1..n |-> <<day, s + k - 1>>]

\* ------------------------------------------------------------------ inputs
FirstDates == {<<2020, 2, 28>>, <<2019, 12, 31>>, <<1900, 2, 28>>}
MalformedDates == {<<2019, 2, 29>>, <<2020, 13, 1>>}
MaxResultsInputs == {None, Some(-1), Some(0), Some(2), Some(10001)}

\* The (start_date, end_date) pairs of the requests: ranges of up to
\* MaxSpan + 1 days from each first date, ranges with last_date one day
\* before first_date, the three-day range over the leap day, and pairs with
\* a date that is not a calendar date.
DateInputs ==
  {<<f, AddDays(f, k)>> : f \in FirstDates, k \in (-1)..MaxSpan}
    \cup {<<<<2020, 2, 28>>, <<2020, 3, 1>> >>}
    \cup {<<b, <<2020, 3, 1>> >> : b \in MalformedDates}
    \cup {<<<<2020, 2, 28>>, b>> : b \in MalformedDates}

\* The column headers of a report: each name is the sequence of its
\* tokens, the namespace prefix 'ga:' being one token.
SchemaA ==
  << [name |-> <<"ga:", "date">>, dataType |-> "STRING"],
     [name |-> <<"ga:", "sessions">>, dataType |-> "INTEGER"] >>

SchemaB ==
  << [name |-> <<"ga:", "date">>, dataType |-> "STRING"],
     [name |-> <<"ga:", "sessions">>, dataType |-> "FLOAT"] >>

\* The sampling fields of a first page.
NotSampled ==
  [containsSampledData |-> FALSE, sampleSize |-> None, sampleSpace |-> None]

Sampled(size, space) ==
  [containsSampledData |-> TRUE, sampleSize |-> Some(size),
   sampleSpace |-> Some(space)]

\* What the service reports for a view: view 'ga:1' always reports the same
\* headers and unsampled data; the headers and the sampling of view 'ga:2'
\* vary from day to day.
ServiceSchemas(ids) == IF ids = "ga:2" THEN {SchemaA, SchemaB} ELSE {SchemaA}

ServiceSamplings(ids) ==
  IF ids = "ga:2" THEN {NotSampled, Sampled(500, 2000), Sampled(1, 3)}
  ELSE {NotSampled}

\* c['name'].replace('ga:', '')
StripPrefix(name) == SelectSeq(name, LAMBDA t : t # "ga:")

ColumnNames(columns) == [k \in 1..Len(columns) |-> StripPrefix(columns[k].name)]

ColumnTypes(columns) == [k \in 1..Len(columns) |-> columns[k].dataType]

\* A number a/b in lowest terms, as <<numerator, denominator>> (b > 0).
RECURSIVE Gcd(_, _)
Gcd(a, b) == IF b = 0 THEN a ELSE Gcd(b, a % b)

Ratio(a, b) == <<a \div Gcd(a, b), b \div Gcd(a, b)>>

\* Variant: the ratio is not scaled to a percentage.
SamplingPerc_Fraction(samp) == Ratio(samp.sampleSize[1], samp.sampleSpace[1])

\* float(sampleSize) / float(sampleSpace) * 100
SamplingPerc(samp) == Ratio(samp.sampleSize[1] * 100, samp.sampleSpace[1])

VARIABLES
  request,        \* self.request: ids, start_date, end_date, max_results
  start_date,     \* self.start_date
  end_date,       \* self.end_date
  service,        \* self.service: None or Some(handle)
  first_page,     \* self.first_page: None (attribute unset) or Some(BOOLEAN)
  items_per_page, \* self.items_per_page: None (unset) or Some(n)
  total_results,  \* self.total_results: None (unset) or Some(n)
  pages,          \* self.pages
  column_names,   \* self.column_names: None (unset) or Some(names)
  column_types,   \* self.column_types: None (unset) or Some(types)
  caller,         \* the public method that was called on the object
  dates,          \* batch_get: dates
  di,             \* batch_get: number of days whose loop body has started
  todo,           \* get_all_results: start indices still to be fetched
  rows,           \* get_all_results: rows
  df,             \* batch_get: df
  pc,             \* position in the call
  err,            \* the exception that left the call, or "none"
  log,            \* ReportingService: every query received, in order
  metas,          \* ReportingService: the first-page metadata of each day
  headers,        \* ReportingService: the column headers of each day
  samplings,      \* ReportingService: the sampling fields of each day
  started,        \* the days the batch_get loop has set as the window, in order
  creations,      \* number of get_service calls
  warnings,       \* the sampling warnings printed, in order
  coerced,        \* the frames transform_results was called with, in order
  used_types,     \* the column types transform_results converted with
  saved,          \* number of save_to_file calls
  pair            \* two objects run side by side, day by day (PairNext)

\* The state of the object and of its call.
run == <<request, start_date, end_date, service, first_page, items_per_page,
         total_results, pages, column_names, column_types, caller, dates, di,
         todo, rows, df, pc, err, log, metas, headers, samplings, started,
         creations, warnings, coerced, used_types, saved>>

vars == <<run, pair>>

\* The requests: every page size on the single-day and malformed ranges,
\* the default page size on the other ranges.
Requests ==
  {[ids |-> "ga:1", start_date |-> dr[1], end_date |-> dr[2],
    max_results |-> mr] :
     dr \in {x \in DateInputs : x[1] = x[2] \/ ~StrptimeOk(x[1])
                                            \/ ~StrptimeOk(x[2])},
     mr \in MaxResultsInputs}
    \cup {[ids |-> "ga:1", start_date |-> dr[1], end_date |-> dr[2],
           max_results |-> None] : dr \in DateInputs}

\* Requests on the view whose reports vary: one day and two days.
VariedRequests ==
  {[ids |-> "ga:2", start_date |-> <<2019, 12, 31>>, end_date |-> e,
    max_results |-> None] : e \in {<<2019, 12, 31>>, <<2020, 1, 1>>}}

\* The two objects of the side-by-side run before their first day.
PairStart ==
  [day |-> 0, same |-> FALSE,
   a |-> [pages |-> <<>>, fetched |-> <<>>, rows |-> <<>>],
   b |-> [pages |-> <<>>, fetched |-> <<>>, rows |-> <<>>]]

\* Variant: __init__ takes self.end_date from the request's end_date.
InitFrom_RangeEnd(reqs) ==
  /\ request \in reqs
  /\ start_date = request.start_date
  /\ end_date = request.end_date
  /\ service = None
  /\ first_page = None
  /\ items_per_page = None
  /\ total_results = None
  /\ pages = <<>>
  /\ column_names = None
  /\ column_types = None
  /\ caller = "none"
  /\ dates = <<>>
  /\ di = 0
  /\ todo = <<>>
  /\ rows = <<>>
  /\ df = <<>>
  /\ pc = "new"
  /\ err = "none"
  /\ log = <<>>
  /\ metas = <<>>
  /\ headers = <<>>
  /\ samplings = <<>>
  /\ started = <<>>
  /\ creations = 0
  /\ warnings = <<>>
  /\ coerced = <<>>
  /\ used_types = <<>>
  /\ saved = 0
  /\ pair = PairStart

\* __init__(request), for a request of reqs
InitFrom(reqs) ==
  /\ request \in reqs
  /\ start_date = request.start_date
  /\ end_date = request.start_date
  /\ service = None
  /\ first_page = None
  /\ items_per_page = None
  /\ total_results = None
  /\ pages = <<>>
  /\ column_names = None
  /\ column_types = None
  /\ caller = "none"
  /\ dates = <<>>
  /\ di = 0
  /\ todo = <<>>
  /\ rows = <<>>
  /\ df = <<>>
  /\ pc = "new"
  /\ err = "none"
  /\ log = <<>>
  /\ metas = <<>>
  /\ headers = <<>>
  /\ samplings = <<>>
  /\ started = <<>>
  /\ creations = 0
  /\ warnings = <<>>
  /\ coerced = <<>>
  /\ used_types = <<>>
  /\ saved = 0
  /\ pair = PairStart

Init == InitFrom(Requests)

\* self.first_date, self.last_date
first_date == request.start_date
last_date == request.end_date

\* The handle self.service holds once get_max_results has looked it up.
ServiceAfter == IF service = None THEN Some(creations + 1) ELSE service

\* The query get_max_results hands to the service, and the handle it uses.
Query(start_index, mr) ==
  [via |-> ServiceAfter, ids |-> request.ids,
   start_date |-> start_date, end_date |-> end_date,
   start_index |-> start_index, max_results |-> SentMaxResults(request, mr)]

\* Variant: the page size is checked only after the query has been issued.
GetMaxResults_LateCheck(start_index, mr, meta, ok) ==
  /\ service' = ServiceAfter
  /\ creations' = IF service = None THEN creations + 1 ELSE creations
  /\ log' = Append(log, Query(start_index, mr))
  /\ IF ok /\ ~RejectsMaxResults(mr) /\ first_page = Some(TRUE)
     THEN /\ first_page' = Some(FALSE)
          /\ items_per_page' = Some(meta.ipp)
          /\ total_results' = Some(meta.total)
          /\ pages' = PlanPages(pages, meta.ipp, meta.total)
     ELSE UNCHANGED <<first_page, items_per_page, total_results, pages>>

\* Variant: the pagination metadata is taken from every page, not only from
\* the first page of the day.
GetMaxResults_EveryPage(start_index, mr, meta, ok) ==
  IF RejectsMaxResults(mr)
  THEN UNCHANGED <<service, creations, log, first_page, items_per_page,
                   total_results, pages>>
  ELSE /\ service' = ServiceAfter
       /\ creations' = IF service = None THEN creations + 1 ELSE creations
       /\ log' = Append(log, Query(start_index, mr))
       /\ IF ok
          THEN /\ first_page' = Some(FALSE)
               /\ items_per_page' = Some(meta.ipp)
               /\ total_results' = Some(meta.total)
               /\ pages' = PlanPages(pages, meta.ipp, meta.total)
          ELSE UNCHANGED <<first_page, items_per_page, total_results, pages>>

\* Variant: get_service is called on every fetch.
GetMaxResults_NewService(start_index, mr, meta, ok) ==
  IF RejectsMaxResults(mr)
  THEN UNCHANGED <<service, creations, log, first_page, items_per_page,
                   total_results, pages>>
  ELSE /\ service' = Some(creations + 1)
       /\ creations' = creations + 1
       /\ log' = Append(log, [Query(start_index, mr)
                                EXCEPT !.via = Some(creations + 1)])
       /\ IF ok /\ first_page = Some(TRUE)
          THEN /\ first_page' = Some(FALSE)
               /\ items_per_page' = Some(meta.ipp)
               /\ total_results' = Some(meta.total)
               /\ pages' = PlanPages(pages, meta.ipp, meta.total)
          ELSE UNCHANGED <<first_page, items_per_page, total_results, pages>>

\* get_max_results(start_index, max_results) when the service answers with
\* metadata meta (ok) or fails (~ok): its effect on the object and the service.
GetMaxResults(start_index, mr, meta, ok) ==
  IF RejectsMaxResults(mr)
  THEN UNCHANGED <<service, creations, log, first_page, items_per_page,
                   total_results, pages>>
  ELSE /\ service' = ServiceAfter
       /\ creations' = IF service = None THEN creations + 1 ELSE creations
       /\ log' = Append(log, Query(start_index, mr))
       /\ IF ok /\ first_page = Some(TRUE)
          THEN /\ first_page' = Some(FALSE)
               /\ items_per_page' = Some(meta.ipp)
               /\ total_results' = Some(meta.total)
               /\ pages' = PlanPages(pages, meta.ipp, meta.total)
          ELSE UNCHANGED <<first_page, items_per_page, total_results, pages>>

\* How that call ends.
Outcome(mr, ok) ==
  IF RejectsMaxResults(mr) THEN "ValueError"
  ELSE IF ok THEN "ok" ELSE "TransportError"

\* batch_get: parse the range and expand it into days.
BatchGetStart ==
  /\ pc = "new"
  /\ caller' = "batch_get"
  /\ IF StrptimeOk(first_date) /\ StrptimeOk(last_date)
     THEN /\ dates' = Dates(first_date, last_date)
          /\ pc' = "loop"
          /\ err' = err
     ELSE /\ pc' = "raised"
          /\ err' = "ValueError"
          /\ dates' = dates
  /\ UNCHANGED <<request, start_date, end_date, service, first_page,
                 items_per_page, total_results, pages, di, todo, rows, df,
                 log, metas, started, creations, coerced, saved>>
  /\ UNCHANGED <<column_names, column_types, headers, samplings, warnings,
                 used_types, pair>>

\* batch_get: the loop sets the day's window and enters get_all_results.
DayStart ==
  /\ pc = "loop"
  /\ di < Len(dates)
  /\ start_date' = dates[di + 1]
  /\ end_date' = dates[di + 1]
  /\ di' = di + 1
  /\ started' = Append(started, dates[di + 1])
  /\ first_page' = Some(TRUE)
  /\ pc' = "first"
  /\ UNCHANGED <<request, service, items_per_page, total_results, pages,
                 dates, todo, rows, df, err, log, metas, creations,
                 coerced, saved>>
  /\ UNCHANGED <<column_names, column_types, caller, headers, samplings,
                 warnings, used_types, pair>>

\* get_all_results: the first page of the day, the sampling check and the
\* column names and types.
FetchFirst ==
  /\ pc = "first"
  /\ \E meta \in Metas, ok \in BOOLEAN,
        columns \in ServiceSchemas(request.ids),
        samp \in ServiceSamplings(request.ids) :
       LET mr == request.max_results
           out == Outcome(mr, ok)
       IN  /\ GetMaxResults(1, mr, meta, ok)
           /\ IF out = "ok"
              THEN /\ rows' = ServiceRows(start_date, 1, meta)
                   /\ metas' = Append(metas, meta)
                   /\ headers' = Append(headers, columns)
                   /\ samplings' = Append(samplings, samp)
                   /\ warnings' =
                        IF samp.containsSampledData
                        THEN Append(warnings, [day |-> start_date,
                                               perc |-> SamplingPerc(samp)])
                        ELSE warnings
                   /\ column_names' = Some(ColumnNames(columns))
                   /\ column_types' = Some(ColumnTypes(columns))
                   /\ todo' = Rest(pages')
                   /\ pc' = "pages"
                   /\ err' = err
              ELSE /\ pc' = "raised"
                   /\ err' = out
                   /\ UNCHANGED <<rows, metas, todo, headers, samplings,
                                  warnings, column_names, column_types>>
  /\ UNCHANGED <<request, start_date, end_date, dates, di, df, started,
                 coerced, saved>>
  /\ UNCHANGED <<caller, used_types, pair>>

\* get_all_results: one continuation page of the day.
FetchNext ==
  /\ pc = "pages"
  /\ todo # <<>>
  /\ \E meta \in Metas, ok \in BOOLEAN :
       LET mr == request.max_results
           out == Outcome(mr, ok)
       IN  /\ GetMaxResults(Head(todo), mr, meta, ok)
           /\ IF out = "ok"
              THEN /\ rows' = rows \o ServiceRows(start_date, Head(todo),
                                                  metas[Len(metas)])
                   /\ todo' = Tail(todo)
                   /\ pc' = pc
                   /\ err' = err
              ELSE /\ pc' = "raised"
                   /\ err' = out
                   /\ UNCHANGED <<rows, todo>>
  /\ UNCHANGED <<request, start_date, end_date, dates, di, df, metas,
                 started, coerced, saved>>
  /\ UNCHANGED <<column_names, column_types, caller, headers, samplings,
                 warnings, used_types, pair>>

\* get_all_results returns the day's frame and batch_get appends it.
DayEnd ==
  /\ pc = "pages"
  /\ todo = <<>>
  /\ caller = "batch_get"
  /\ df' = df \o rows
  /\ pc' = "loop"
  /\ UNCHANGED <<request, start_date, end_date, service, first_page,
                 items_per_page, total_results, pages, dates, di, todo, rows,
                 err, log, metas, started, creations, coerced, saved>>
  /\ UNCHANGED <<column_names, column_types, caller, headers, samplings,
                 warnings, used_types, pair>>

\* Variant: a failed conversion is swallowed and batch_get carries on.
Coerce_Swallow ==
  /\ pc = "loop"
  /\ di = Len(dates)
  /\ IF Len(df) > 0
     THEN /\ coerced' = Append(coerced, df)
          /\ used_types' = Append(used_types, column_types)
          /\ \E parses \in BOOLEAN :
               IF parses
               THEN pc' = "coerced" /\ err' = err
               ELSE pc' = "coerced" /\ err' = "TypeConversionError"
     ELSE /\ coerced' = coerced
          /\ used_types' = used_types
          /\ pc' = "coerced"
          /\ err' = err
  /\ UNCHANGED <<request, start_date, end_date, service, first_page,
                 items_per_page, total_results, pages, dates, di, todo, rows,
                 df, log, metas, started, creations, saved>>
  /\ UNCHANGED <<column_names, column_types, caller, headers, samplings,
                 warnings, pair>>

\* Variant: transform_results is called whether or not the frame has rows.
Coerce_Always ==
  /\ pc = "loop"
  /\ di = Len(dates)
  /\ coerced' = Append(coerced, df)
  /\ used_types' = Append(used_types, column_types)
  /\ \E parses \in BOOLEAN :
       IF parses
       THEN pc' = "coerced" /\ err' = err
       ELSE pc' = "raised" /\ err' = "TypeConversionError"
  /\ UNCHANGED <<request, start_date, end_date, service, first_page,
                 items_per_page, total_results, pages, dates, di, todo, rows,
                 df, log, metas, started, creations, saved>>
  /\ UNCHANGED <<column_names, column_types, caller, headers, samplings,
                 warnings, pair>>

\* batch_get: after the loop, transform_results on a non-empty frame; it
\* converts every column with the type self.column_types holds for it.
Coerce ==
  /\ pc = "loop"
  /\ di = Len(dates)
  /\ IF Len(df) > 0
     THEN /\ coerced' = Append(coerced, df)
          /\ used_types' = Append(used_types, column_types)
          /\ \E parses \in BOOLEAN :
               IF parses
               THEN pc' = "coerced" /\ err' = err
               ELSE pc' = "raised" /\ err' = "TypeConversionError"
     ELSE /\ coerced' = coerced
          /\ used_types' = used_types
          /\ pc' = "coerced"
          /\ err' = err
  /\ UNCHANGED <<request, start_date, end_date, service, first_page,
                 items_per_page, total_results, pages, dates, di, todo, rows,
                 df, log, metas, started, creations, saved>>
  /\ UNCHANGED <<column_names, column_types, caller, headers, samplings,
                 warnings, pair>>

\* df has columns once the frame of a day, empty or not, was appended to it.
FrameHasColumns == headers # <<>>

\* batch_get: print_summary when summary is set (df.describe() raises
\* ValueError on a frame without columns), save_to_file when an output file
\* is given, then return df.
Finish ==
  /\ pc = "coerced"
  /\ \E summary \in BOOLEAN, output_file \in {None, Some("out.csv")} :
       IF summary /\ ~FrameHasColumns
       THEN /\ pc' = "raised"
            /\ err' = "ValueError"
            /\ saved' = saved
       ELSE /\ saved' = IF output_file # None THEN saved + 1 ELSE saved
            /\ pc' = "returned"
            /\ err' = err
  /\ UNCHANGED <<request, start_date, end_date, service, first_page,
                 items_per_page, total_results, pages, dates, di, todo, rows,
                 df, log, metas, started, creations, coerced>>
  /\ UNCHANGED <<column_names, column_types, caller, headers, samplings,
                 warnings, used_types, pair>>

Next ==
  \/ BatchGetStart
  \/ DayStart
  \/ FetchFirst
  \/ FetchNext
  \/ DayEnd
  \/ Coerce
  \/ Finish

Spec == Init /\ [][Next]_vars

\* A batch_get run on the view whose reports vary.
VariedInit == InitFrom(VariedRequests)

VariedSpec == VariedInit /\ [][Next]_vars

\* ---------------------------------------- get_all_results called directly
\* get_all_results is called on the freshly constructed object.
GetAllResultsCall ==
  /\ pc = "new"
  /\ caller' = "get_all_results"
  /\ first_page' = Some(TRUE)
  /\ pc' = "first"
  /\ UNCHANGED <<request, start_date, end_date, service, items_per_page,
                 total_results, pages, column_names, column_types, dates, di,
                 todo, rows, df, err, log, metas, headers, samplings, started,
                 creations, warnings, coerced, used_types, saved, pair>>

\* That call builds the frame of its rows and returns it.
GetAllResultsReturn ==
  /\ pc = "pages"
  /\ todo = <<>>
  /\ caller = "get_all_results"
  /\ pc' = "returned"
  /\ UNCHANGED <<request, start_date, end_date, service, first_page,
                 items_per_page, total_results, pages, column_names,
                 column_types, caller, dates, di, todo, rows, df, err, log,
                 metas, headers, samplings, started, creations, warnings,
                 coerced, used_types, saved, pair>>

\* Either public method is called on the fresh object.
CallsNext ==
  \/ Next
  \/ GetAllResultsCall
  \/ GetAllResultsReturn

CallsSpec == Init /\ [][CallsNext]_vars

\* ------------------------------------------------- two objects side by side
MaxPairDays == 2  \* days of the side-by-side run

\* Rows of the pages with start indices idxs, in that order.
RECURSIVE FetchAll(_, _, _)
FetchAll(day, idxs, meta) ==
  IF idxs = <<>> THEN <<>>
  ELSE ServiceRows(day, Head(idxs), meta) \o FetchAll(day, Tail(idxs), meta)

\* get_all_results as one step, on an object whose self.pages is obj.pages,
\* for a day whose first page reports meta: the plan it leaves in self.pages,
\* the start indices it fetches and the rows it returns.
DayOf(obj, day, meta) ==
  LET plan == PlanPages(obj.pages, meta.ipp, meta.total)
      fetched == <<1>> \o Rest(plan)
  IN  [pages |-> plan, fetched |-> fetched,
       rows |-> FetchAll(day, fetched, meta)]

\* Two objects built from the same request run the same day; the service
\* answers object a with ma and object b with mb.
PairDay ==
  /\ pair.day < MaxPairDays
  /\ \E ma, mb \in Metas :
       pair' = [day |-> pair.day + 1,
                same |-> (ma = mb),
                a |-> DayOf(pair.a, pair.day + 1, ma),
                b |-> DayOf(pair.b, pair.day + 1, mb)]
  /\ UNCHANGED run

PairInit ==
  InitFrom({[ids |-> "ga:1", start_date |-> <<2019, 12, 31>>,
             end_date |-> <<2020, 1, 1>>, max_results |-> None]})

PairNext == PairDay

PairSpec == PairInit /\ [][PairNext]_vars

\* ===================================================================
\* Properties
\* ===================================================================

\* The metadata the first page of the day in progress reported.
DayMeta == metas[Len(metas)]

\* get_all_results is about to return the day's frame.
DayFetched == pc = "pages" /\ todo = <<>>

\* Rows 1..total of a day, in index order.
AllRowsOf(day, total) == [k \in 1..total |-> <<day, k>>]

\* The queries the service received for day number j of the range.
FetchesOfDay(j) == {i \in 1..Len(log) : log[i].start_date = dates[j]}

\* ceil(a / b) for a >= 0, b >= 1
CeilDiv(a, b) == (a + b - 1) \div b

PageCount(meta) == Max(1, CeilDiv(meta.total, meta.ipp))

RECURSIVE SumPageCounts(_)
SumPageCounts(ms) ==
  IF ms = <<>> THEN 0 ELSE PageCount(Head(ms)) + SumPageCounts(Tail(ms))

RECURSIVE SumTotals(_)
SumTotals(ms) ==
  IF ms = <<>> THEN 0 ELSE Head(ms).total + SumTotals(Tail(ms))

\* C1: when get_all_results returns for a day, its rows are exactly rows
\* 1..total_results of that day, in page order, none missing or duplicated.
C1_DayRowsComplete ==
  DayFetched => rows = AllRowsOf(start_date, DayMeta.total)

\* C2: a day whose first page reports items_per_page = total_results is
\* fetched with a single query, on the first day and on every later day.
C2_SinglePageDayFetchedOnce ==
  \A j \in 1..Len(metas) :
    metas[j].ipp = metas[j].total => Cardinality(FetchesOfDay(j)) = 1

\* C3: a completed run has issued max(1, ceil(total_results/items_per_page))
\* queries for each day, the sum of these in total, and its Dataset has the
\* sum of the days' total_results rows.
C3_FetchAndRowTotals ==
  pc \in {"coerced", "returned"} =>
    /\ \A j \in 1..Len(metas) :
         Cardinality(FetchesOfDay(j)) = PageCount(metas[j])
    /\ Len(log) = SumPageCounts(metas)
    /\ Len(df) = SumTotals(metas)

\* The page size the documentation of get_max_results makes effective.
EffectivePageSize(mr) ==
  IF mr = None THEN 1000 ELSE IF mr[1] > 10000 THEN 10000 ELSE mr[1]

\* C4: the max_results field of every query sent is the effective page size:
\* 1000 when absent, p for 0 < p <= 10000, 10000 for p > 10000.
C4_SentPageSizeIsEffective ==
  \A i \in 1..Len(log) :
    log[i].max_results = Some(EffectivePageSize(request.max_results))

\* C5: with a page size that is given and <= 0, the first fetch raises
\* ValueError and no query reaches the service.
C5_NonPositivePageSizeRejected ==
  (request.max_results # None /\ request.max_results[1] <= 0) =>
    /\ log = <<>>
    /\ (di >= 1 /\ pc # "first") => (pc = "raised" /\ err = "ValueError")

\* The pagination state of the object.
pagination == <<first_page, items_per_page, total_results, pages>>

\* C6: a step that raises the invalid-argument error (negative page size in
\* get_max_results, malformed date in batch_get) issues no query, creates no
\* service handle and leaves the pagination state unchanged.
C6_InvalidArgumentBeforeNetwork ==
  [][(err = "none" /\ err' = "ValueError") =>
       (log' = log /\ service' = service /\ creations' = creations
        /\ pagination' = pagination)]_vars

\* A day was opened, the first fetch was given page size -1 and raised.
C6_Witness ==
  /\ pc = "raised" /\ err = "ValueError"
  /\ request.max_results = Some(-1)
  /\ di = 1 /\ first_page = Some(TRUE)
  /\ log = <<>> /\ service = None /\ creations = 0

\* C7: once a fetch or the coercion has failed the run has ended with that
\* error and nothing is saved; the file sink is written only by a run that
\* returns, after every day was fetched and the coercion step has passed.
C7_ErrorsAbortBeforeSink ==
  /\ err # "none" => (pc = "raised" /\ saved = 0)
  /\ pc = "raised" => err # "none"
  /\ saved > 0 =>
       /\ err = "none" /\ pc = "returned" /\ saved = 1
       /\ di = Len(dates) /\ Len(metas) = Len(dates) /\ todo = <<>>
       /\ Len(coerced) = (IF Len(df) > 0 THEN 1 ELSE 0)

\* A continuation page of the second day failed after rows of the first day
\* had been accumulated.
C7_Witness ==
  /\ pc = "raised" /\ err = "TransportError"
  /\ di = 2 /\ Len(df) > 0 /\ Len(rows) > 0
  /\ log[Len(log)].start_index > 1
  /\ saved = 0

\* Calendar order and the calendar successor of a date.
DateLT(a, b) ==
  \/ a[1] < b[1]
  \/ a[1] = b[1] /\ a[2] < b[2]
  \/ a[1] = b[1] /\ a[2] = b[2] /\ a[3] < b[3]

DateLE(a, b) == a = b \/ DateLT(a, b)

DayAfter(d) ==
  IF d[3] < DaysInMonth(d[1], d[2]) THEN <<d[1], d[2], d[3] + 1>>
  ELSE IF d[2] < 12 THEN <<d[1], d[2] + 1, 1>>
  ELSE <<d[1] + 1, 1, 1>>

LeapRangeDays == << <<2020, 2, 28>>, <<2020, 2, 29>>, <<2020, 3, 1>> >>

\* C8: for well-formed first_date <= last_date the days of the run are
\* first_date, its calendar successors, up to last_date, each once; the loop
\* opens them in that order and a completed run has opened all of them;
\* 2020-02-28..2020-03-01 gives 2020-02-28, 2020-02-29, 2020-03-01.
C8_DaysOfRange ==
  (pc # "new" /\ StrptimeOk(first_date) /\ StrptimeOk(last_date)
   /\ DateLE(first_date, last_date)) =>
    /\ Len(dates) >= 1
    /\ dates[1] = first_date
    /\ dates[Len(dates)] = last_date
    /\ \A k \in 1..(Len(dates) - 1) : dates[k + 1] = DayAfter(dates[k])
    /\ Len(started) <= Len(dates)
    /\ started = SubSeq(dates, 1, Len(started))
    /\ (pc \in {"coerced", "returned"} => started = dates)
    /\ (first_date = <<2020, 2, 28>> /\ last_date = <<2020, 3, 1>>) =>
         dates = LeapRangeDays

\* The run over the leap day has returned after opening its three days.
C8_Witness ==
  /\ pc = "returned"
  /\ first_date = <<2020, 2, 28>> /\ last_date = <<2020, 3, 1>>
  /\ started = LeapRangeDays
  /\ Len(metas) = 3

\* C9: the queries reach the service ordered by day and, within a day, by
\* strictly ascending start index; the first query of each day has start
\* index 1; the days are opened in strictly ascending date order.
C9_FetchOrder ==
  /\ \A i, j \in 1..Len(log) :
       i < j => \/ DateLT(log[i].start_date, log[j].start_date)
                \/ /\ log[i].start_date = log[j].start_date
                   /\ log[i].start_index < log[j].start_index
  /\ \A i \in 1..Len(log) :
       (i = 1 \/ log[i - 1].start_date # log[i].start_date) =>
         log[i].start_index = 1
  /\ \A i, j \in 1..Len(started) : i < j => DateLT(started[i], started[j])

\* A run of two days has returned, each day fetched in two or more pages.
C9_Witness ==
  /\ pc = "returned"
  /\ Len(started) = 2
  /\ \A j \in 1..2 : Cardinality(FetchesOfDay(j)) >= 2

\* C10: transform_results is called at most once, only after the last day
\* was fetched and appended, with the whole accumulated frame, which then has
\* at least one row; a run that got past the coercion step with an empty
\* frame never called it.
C10_CoercionOnce ==
  /\ Len(coerced) <= 1
  /\ Len(coerced) = 1 =>
       /\ coerced[1] = df /\ Len(df) > 0
       /\ di = Len(dates) /\ Len(metas) = Len(dates)
       /\ pc \in {"coerced", "returned", "raised"}
       /\ (pc = "raised" => err = "TypeConversionError")
  /\ pc \in {"coerced", "returned"} =>
       Len(coerced) = (IF Len(df) > 0 THEN 1 ELSE 0)

\* A two-day run with rows on both days has returned after one coercion.
C10_Witness ==
  /\ pc = "returned"
  /\ Len(started) = 2
  /\ \A j \in 1..2 : metas[j].total > 0
  /\ Len(coerced) = 1

\* C11: when two runs get the same responses for a day, they fetch the same
\* start indices and obtain the same rows for it, whatever the earlier days
\* returned to each of them.
C11_DayIndependentOfEarlierDays ==
  (pair.day >= 1 /\ pair.same) =>
    (pair.a.fetched = pair.b.fetched /\ pair.a.rows = pair.b.rows)

\* The first day of the run whose first page reported rows.
FirstNonEmptyDay ==
  CHOOSE j \in 1..Len(metas) :
    metas[j].total > 0 /\ \A k \in 1..(j - 1) : metas[k].total = 0

\* C12: the column types the final coercion converts with are those of the
\* headers of the first non-empty day, whatever headers later days report.
C12_SchemaOfFirstNonEmptyDay ==
  used_types # <<>> =>
    used_types[1] = Some(ColumnTypes(headers[FirstNonEmptyDay]))

\* The query a step hands to the service.
Sent == log'[Len(log')]

\* C13: every query has start_date = end_date; in batch_get that date is the
\* day the loop has opened, in a direct get_all_results call on a fresh
\* object it is the request's start_date, first and continuation pages alike.
C13_SingleDayQueries ==
  [][log' # log =>
       /\ Sent.start_date = Sent.end_date
       /\ caller = "batch_get" =>
            (Sent.start_date = dates[di]
             /\ Sent.start_date = started[Len(started)])
       /\ caller = "get_all_results" =>
            Sent.start_date = request.start_date]_vars

\* A direct call on a request of more than one day has fetched a first and
\* a continuation page.
C13_Witness ==
  /\ caller = "get_all_results"
  /\ StrptimeOk(request.start_date) /\ StrptimeOk(request.end_date)
  /\ request.start_date # request.end_date
  /\ Len(log) >= 2
  /\ log[2].start_index > 1
  /\ log[2].end_date = request.start_date

\* The values 1, 1+ipp, 1+2*ipp, ... strictly less than total, ascending.
StartIndexPlan(ipp, total) ==
  LET S == {x \in 1..(total - 1) : (x - 1) % ipp = 0}
  IN  [k \in 1..Cardinality(S) |-> 1 + (k - 1) * ipp]

\* The start indices queried so far for the day in progress, in order.
DayIndices ==
  LET qs == SelectSeq(log, LAMBDA q : q.start_date = start_date)
  IN  [k \in 1..Len(qs) |-> qs[k].start_index]

\* C14: for a day whose first page reports items_per_page # total_results
\* the plan is 1, 1+items_per_page, ... below total_results, and the
\* continuation fetches are the plan's elements after the first; a day with
\* total_results = 0 has no continuation fetch and no rows.
C14_StartIndexPlan ==
  /\ PlanPages(<<>>, 100, 250) = <<1, 101, 201>>
  /\ PlanPages(<<>>, 100, 0) = <<>>
  /\ (pc = "pages" /\ DayMeta.ipp # DayMeta.total) =>
       /\ pages = StartIndexPlan(DayMeta.ipp, DayMeta.total)
       /\ Tail(DayIndices) \o todo = Rest(pages)
       /\ (todo = <<>> => Tail(DayIndices) = Rest(pages))
  /\ (DayFetched /\ DayMeta.total = 0) =>
       (rows = <<>> /\ DayIndices = <<1>>)

\* A day with a plan of three start indices has been fetched completely.
C14_Witness ==
  /\ DayFetched
  /\ DayMeta.ipp # DayMeta.total
  /\ Len(pages) = 3
  /\ DayIndices = pages

\* What the first page of a day fixes for the day.
dayState == <<items_per_page, total_results, pages, column_names, column_types>>

\* C15: within a run only the first fetch of a day changes items_per_page,
\* total_results, the plan and the column schema; a continuation fetch
\* changes none of them nor first_page, whatever metadata its response
\* carries; first_page is true exactly while a day has been opened and its
\* first fetch has not returned.
C15_DayMetadataSetOnce ==
  /\ [][pc # "first" => dayState' = dayState]_vars
  /\ [][(pc = "pages" /\ log' # log) =>
          (dayState' = dayState /\ first_page' = first_page)]_vars
  /\ [](first_page = Some(TRUE) <=> Len(started) > Len(metas))

\* On the second day, whose headers differ from the first day's, a
\* continuation page has been fetched.
C15_Witness ==
  /\ pc = "pages"
  /\ di = 2
  /\ headers[1] # headers[2]
  /\ metas[1] # metas[2]
  /\ Len(DayIndices) >= 2
  /\ first_page = Some(FALSE)

\* The days, by number, whose first page reported sampled data.
SampledDays ==
  SelectSeq([j \in 1..Len(samplings) |-> j],
            LAMBDA j : samplings[j].containsSampledData)

\* C16: a warning is printed for exactly the days whose first page has
\* containsSampledData true, in day order, and its ratio is
\* sampleSize / sampleSpace * 100; 500 of 2000 gives exactly 25.
C16_SamplingWarning ==
  /\ SamplingPerc(Sampled(500, 2000)) = <<25, 1>>
  /\ Len(warnings) = Len(SampledDays)
  /\ \A k \in 1..Len(warnings) :
       LET samp == samplings[SampledDays[k]]
       IN  /\ warnings[k].day = started[SampledDays[k]]
           /\ warnings[k].perc[2] > 0
           /\ warnings[k].perc[1] * samp.sampleSpace[1]
                = samp.sampleSize[1] * 100 * warnings[k].perc[2]

\* A two-day run has returned: day 1 was not sampled, day 2 was sampled with
\* sampleSize 500 of sampleSpace 2000.
C16_Witness ==
  /\ pc = "returned"
  /\ samplings = <<NotSampled, Sampled(500, 2000)>>
  /\ Len(warnings) = 1
  /\ warnings[1] = [day |-> <<2020, 1, 1>>, perc |-> <<25, 1>>]

C18_ReversedRangeReturnsEmpty ==
  (caller = "batch_get" /\ StrptimeOk(first_date) /\ StrptimeOk(last_date)
   /\ DateLT(last_date, first_date)) =>
    /\ err = "none" /\ pc # "raised"
    /\ log = <<>> /\ coerced = <<>> /\ df = <<>>
    /\ dates = <<>>

====
